---- MODULE Spec2Model ----
(***************************************************************************)
(* Model of dumnati: the scraper actor (src/scraper.rs), the graph builder *)
(* and the two policy stages (src/graph.rs, src/policy.rs) and the request *)
(* handler serve_graph (src/main.rs).                                      *)
(*                                                                         *)
(* Conventions.                                                            *)
(*  - A Rust String that is parsed or formatted by the code is a sequence  *)
(*    of one-character strings (<<"1","0">> is "10"); a String that is     *)
(*    only compared for equality is a TLA+ string.                         *)
(*  - A HashMap<String,String> is a function whose DOMAIN is its key set.  *)
(*  - Vec indices are 0-based in the code and 1-based here: nodes[i + 1]   *)
(*    is the code's nodes[i]; edge endpoints keep the code's 0-based       *)
(*    values.                                                              *)
(*  - i64 / u64 are modelled with WordBits bits instead of 64 (TLC's       *)
(*    integers are 32 bits wide); every cast, saturation and wrap is kept. *)
(*  - f64 values are exact rationals [n, d] (d > 0) or the tag NaN;        *)
(*    rounding of the float operations is not modelled.                    *)
(***************************************************************************)
EXTENDS Integers, Sequences, FiniteSets

\* ------------------------------------------------------------------------
\* Bounds of the model
\* ------------------------------------------------------------------------
MaxRefreshes == 2
MaxRequests == 2

\* ------------------------------------------------------------------------
\* Machine integers (scaled) and Option values
\* ------------------------------------------------------------------------
WordBits == 16
I64_MAX == 2^(WordBits - 1) - 1
I64_MIN == -(2^(WordBits - 1))
U64_MAX == 2^WordBits - 1

None == [some |-> FALSE]
Some(v) == [some |-> TRUE, val |-> v]

\* `x as i64` for a u64 x: two's complement reinterpretation.
AsI64(x) == IF x > I64_MAX THEN x - 2^WordBits ELSE x

\* Two's complement wrap of an integer into the i64 range.
WrapI64(x) == ((x - I64_MIN) % 2^WordBits) + I64_MIN

\* u64::saturating_mul
SaturatingMulU64(a, b) == IF a * b > U64_MAX THEN U64_MAX ELSE a * b

\* i64::saturating_sub
SaturatingSubI64(a, b) ==
    IF a - b > I64_MAX THEN I64_MAX
    ELSE IF a - b < I64_MIN THEN I64_MIN
    ELSE a - b

\* ------------------------------------------------------------------------
\* Strings: formatting and parsing
\* ------------------------------------------------------------------------
Digits == <<"0", "1", "2", "3", "4", "5", "6", "7", "8", "9">>

IsDigit(c) == \E i \in 1..10 : Digits[i] = c

DigitVal(c) == (CHOOSE i \in 1..10 : Digits[i] = c) - 1

AllDigits(s) == \A i \in 1..Len(s) : IsDigit(s[i])

\* The value of a non-empty digit string, most significant digit first.
RECURSIVE DigitsValue(_)
DigitsValue(s) ==
    IF Len(s) = 0 THEN 0
    ELSE 10 * DigitsValue(SubSeq(s, 1, Len(s) - 1)) + DigitVal(s[Len(s)])

\* usize::to_string
RECURSIVE to_string(_)
to_string(n) ==
    IF n < 10 THEN <<Digits[n + 1]>>
    ELSE Append(to_string(n \div 10), Digits[(n % 10) + 1])

\* str::parse::<i64>: optional sign, then one or more digits, in range.
ParseI64(s) ==
    LET signed == Len(s) > 0 /\ s[1] \in {"-", "+"}
        body == IF signed THEN Tail(s) ELSE s
    IN  IF Len(body) = 0 \/ ~AllDigits(body) THEN None
        ELSE LET mag == DigitsValue(body)
                 v == IF signed /\ s[1] = "-" THEN -mag ELSE mag
             IN  IF v < I64_MIN \/ v > I64_MAX THEN None ELSE Some(v)

\* str::parse::<u64>: optional '+', then one or more digits, in range.
ParseU64(s) ==
    LET plus == Len(s) > 0 /\ s[1] = "+"
        body == IF plus THEN Tail(s) ELSE s
    IN  IF Len(body) = 0 \/ ~AllDigits(body) THEN None
        ELSE LET v == DigitsValue(body)
             IN  IF v > U64_MAX THEN None ELSE Some(v)

\* f64 values: a rational n/d with d > 0, or NaN.
Rat(n, d) == [nan |-> FALSE, n |-> n, d |-> d]
NaN == [nan |-> TRUE]

RECURSIVE Pow10(_)
Pow10(k) == IF k = 0 THEN 1 ELSE 10 * Pow10(k - 1)

\* Position of the first "." of s, or 0.
DotPos(s) ==
    IF \E i \in 1..Len(s) : s[i] = "."
    THEN CHOOSE i \in 1..Len(s) : s[i] = "." /\ \A j \in 1..(i - 1) : s[j] # "."
    ELSE 0

\* str::parse::<f64> on decimal literals: [sign] digits [ "." digits ],
\* with at least one digit on one side of the point, and the literal "NaN".
ParseF64(s) ==
    IF s = <<"N", "a", "N">> THEN Some(NaN)
    ELSE
    LET signed == Len(s) > 0 /\ s[1] \in {"-", "+"}
        body == IF signed THEN Tail(s) ELSE s
        dot == DotPos(body)
        int == IF dot = 0 THEN body ELSE SubSeq(body, 1, dot - 1)
        frac == IF dot = 0 THEN <<>> ELSE SubSeq(body, dot + 1, Len(body))
    IN  IF Len(int) + Len(frac) = 0 \/ ~AllDigits(int) \/ ~AllDigits(frac)
        THEN None
        ELSE LET mag == DigitsValue(int \o frac)
                 n == IF signed /\ s[1] = "-" THEN -mag ELSE mag
             IN  Some(Rat(n, Pow10(Len(frac))))

\* an/ad < bn/bd for ad > 0 and bd > 0, by comparing the continued
\* fractions: exact, and no product is formed.
RECURSIVE RatLess(_, _, _, _)
RatLess(an, ad, bn, bd) ==
    IF an \div ad # bn \div bd THEN an \div ad < bn \div bd
    ELSE IF bn % bd = 0 THEN FALSE
    ELSE IF an % ad = 0 THEN TRUE
    ELSE RatLess(bd, bn % bd, ad, an % ad)

\* a > b on f64 values (any comparison with NaN is false).
GreaterF64(a, b) ==
    IF a.nan \/ b.nan THEN FALSE ELSE RatLess(b.n, b.d, a.n, a.d)

\* a < b on f64 values (any comparison with NaN is false).
LessF64(a, b) ==
    IF a.nan \/ b.nan THEN FALSE ELSE RatLess(a.n, a.d, b.n, b.d)

\* f64::max and f64::min: if one argument is NaN the other is returned.
MaxF64(a, b) == IF a.nan THEN b ELSE IF b.nan THEN a ELSE IF LessF64(a, b) THEN b ELSE a

MinF64(a, b) == IF a.nan THEN b ELSE IF b.nan THEN a ELSE IF LessF64(b, a) THEN b ELSE a

\* ------------------------------------------------------------------------
\* Metadata vocabulary (graph.rs, metadata.rs)
\* ------------------------------------------------------------------------
SCHEME == "org.fedoraproject.coreos.scheme"
AGE_INDEX == "org.fedoraproject.coreos.releases.age_index"
DEADEND == "org.fedoraproject.coreos.updates.deadend"
DEADEND_REASON == "org.fedoraproject.coreos.updates.deadend_reason"
START_EPOCH == "org.fedoraproject.coreos.updates.start_epoch"
START_VALUE == "org.fedoraproject.coreos.updates.start_value"
DURATION == "org.fedoraproject.coreos.updates.duration_minutes"

\* HashMap::insert
Insert(m, k, v) == [x \in (DOMAIN m) \cup {k} |-> IF x = k THEN v ELSE m[x]]

\* HashMap::get(k).is_some()
Has(m, k) == k \in DOMAIN m

\* ------------------------------------------------------------------------
\* Graph (graph.rs)
\* ------------------------------------------------------------------------
Graph(nodes, edges) == [nodes |-> nodes, edges |-> edges]

\* impl Default for Graph
GraphDefault == Graph(<<>>, <<>>)

\* The first dead-end entry matching the release's version decides.
RECURSIVE deadend_reason(_, _)
deadend_reason(deadends, release) ==
    IF Len(deadends) = 0 THEN None
    ELSE IF Head(deadends).version # release.version
         THEN deadend_reason(Tail(deadends), release)
         ELSE IF Head(deadends).reason = "" THEN Some("generic")
              ELSE Some(Head(deadends).reason)

\* One pass of the loop body for one rollout entry.
InjectEntry(entry, release) ==
    IF entry.version # release.version THEN release
    ELSE LET m1 == Insert(release.metadata, START_EPOCH, entry.start_epoch)
             m2 == Insert(m1, START_VALUE, entry.start_value)
             m3 == IF entry.duration_minutes.some
                   THEN Insert(m2, DURATION, entry.duration_minutes.val)
                   ELSE m2
         IN  [release EXCEPT !.metadata = m3]

\* for entry in &updates.rollouts { ... }, in order.
RECURSIVE inject_throttling_params(_, _)
inject_throttling_params(rollouts, release) ==
    IF Len(rollouts) = 0 THEN release
    ELSE inject_throttling_params(Tail(rollouts), InjectEntry(Head(rollouts), release))

\* The closure of from_metadata's map: one node from one release.
\* entry.commits[0] is read by the caller's guard (see from_metadata).
BuildNode(age_index, entry, updates) ==
    LET current == [version |-> entry.version,
                    payload |-> entry.commits[1].checksum,
                    metadata |-> Insert(Insert(<<>>, SCHEME, "checksum"),
                                        AGE_INDEX, to_string(age_index))]
        reason == deadend_reason(updates.deadends, current)
        dead == IF reason.some
                THEN [current EXCEPT !.metadata =
                        Insert(Insert(current.metadata, DEADEND, "true"),
                               DEADEND_REASON, reason.val)]
                ELSE current
    IN  inject_throttling_params(updates.rollouts, dead)

\* The edge list from_metadata synthesizes.
SynthesizedEdges == <<<<0, 1>>, <<0, 2>>, <<1, 2>>>>

\* Graph::from_metadata. Indexing commits[0] of a release without commits
\* panics; otherwise the result is Ok(graph).
from_metadata(releases, updates) ==
    IF \E i \in 1..Len(releases) : Len(releases[i].commits) = 0
    THEN [panic |-> TRUE]
    ELSE [panic |-> FALSE,
          graph |-> Graph([i \in 1..Len(releases) |->
                              BuildNode(i - 1, releases[i], updates)],
                          SynthesizedEdges)]

\* The index set `deadends` of filter_deadends.
DeadendIndices(g) ==
    {i \in 0..(Len(g.nodes) - 1) :
        Has(g.nodes[i + 1].metadata, DEADEND)
        /\ g.nodes[i + 1].metadata[DEADEND] = "true"}

\* Mutant: the dead-end nodes are dropped with their edges.
filter_deadends_dropping_nodes(g) ==
    LET deadends == DeadendIndices(g)
        kept == {i \in 1..Len(g.nodes) : (i - 1) \notin deadends}
    IN  Graph(SelectSeq(g.nodes, LAMBDA n : \E i \in kept : g.nodes[i] = n),
              SelectSeq(g.edges, LAMBDA e : e[1] \notin deadends))

\* Mutant: the edges into a dead end are removed as well.
filter_deadends_incoming(g) ==
    LET deadends == DeadendIndices(g)
    IN  Graph(g.nodes, SelectSeq(g.edges, LAMBDA e : e[1] \notin deadends
                                                     /\ e[2] \notin deadends))

\* Mutant: one call removes only the first outgoing edge of a dead end.
filter_deadends_first_only(g) ==
    LET deadends == DeadendIndices(g)
        outgoing == {i \in 1..Len(g.edges) : g.edges[i][1] \in deadends}
        first == CHOOSE i \in outgoing : \A j \in outgoing : i <= j
    IN  IF outgoing = {} THEN g
        ELSE Graph(g.nodes, SubSeq(g.edges, 1, first - 1)
                            \o SubSeq(g.edges, first + 1, Len(g.edges)))

\* Graph::filter_deadends
filter_deadends(g) ==
    LET deadends == DeadendIndices(g)
    IN  Graph(g.nodes, SelectSeq(g.edges, LAMBDA e : e[1] \notin deadends))

\* start_epoch + (mins.saturating_mul(60)) as i64, before the sum is
\* fitted into an i64 (by a panic or by wrapping).
RolloutEnd(start_epoch, mins) == start_epoch + AsI64(SaturatingMulU64(mins, 60))

\* The `throttling` value of one rolled-out release at time `now`.
\* checks: the build has overflow checks, `+` on i64 panics on overflow;
\* without them `+` and `-` wrap (`-` can overflow only after `+` did).
Throttling(release, now, checks) ==
    LET md == release.metadata
        pe == IF Has(md, START_EPOCH) THEN ParseI64(md[START_EPOCH]) ELSE None
        start_epoch == IF pe.some THEN pe.val ELSE 0
        pv == IF Has(md, START_VALUE) THEN ParseF64(md[START_VALUE]) ELSE None
        start_value == IF Has(md, START_VALUE)
                       THEN (IF pv.some THEN pv.val ELSE Rat(0, 1))
                       ELSE Rat(1, 1)
        pm == IF Has(md, DURATION) THEN ParseU64(md[DURATION]) ELSE None
        minutes == IF pm.some THEN Some(IF pm.val < 1 THEN 1 ELSE pm.val) ELSE None
    IN  IF minutes.some
        THEN LET sum == RolloutEnd(start_epoch, minutes.val)
                 overflow == sum > I64_MAX \/ sum < I64_MIN
                 end == WrapI64(sum)
                 d == SaturatingSubI64(end, start_epoch)
                 t == WrapI64(now - start_epoch)
             IN  IF overflow /\ checks THEN [panic |-> TRUE]
                 ELSE [panic |-> FALSE,
                       val |-> IF now < start_epoch THEN Rat(0, 1)
                               ELSE IF now > end THEN Rat(1, 1)
                               ELSE IF start_value.nan \/ d = 0 THEN NaN
                               ELSE IF d > 0
                                    THEN Rat(start_value.n * d
                                               + (start_value.d - start_value.n) * t,
                                             start_value.d * d)
                                    ELSE Rat(-(start_value.n * d
                                               + (start_value.d - start_value.n) * t),
                                             -(start_value.d * d))]
        ELSE [panic |-> FALSE,
              val |-> IF now < start_epoch THEN Rat(0, 1) ELSE start_value]

\* Whether the loop body considers the release at all (lines 109-113).
RolledOut(release) ==
    Has(release.metadata, START_EPOCH) \/ Has(release.metadata, START_VALUE)

\* The index set `hidden` of throttle_rollouts.
HiddenIndices(g, client_wariness, now, checks) ==
    {i \in 0..(Len(g.nodes) - 1) :
        /\ RolledOut(g.nodes[i + 1])
        /\ LET throttling == Throttling(g.nodes[i + 1], now, checks)
           IN  ~throttling.panic /\ GreaterF64(client_wariness, throttling.val)}

ThrottlePanics(g, now, checks) ==
    \E i \in 1..Len(g.nodes) :
        RolledOut(g.nodes[i]) /\ Throttling(g.nodes[i], now, checks).panic

\* Mutant: the edges leaving a hidden node are removed, not those entering.
throttle_rollouts_by_source(g, client_wariness, now, checks) ==
    IF ThrottlePanics(g, now, checks) THEN [panic |-> TRUE]
    ELSE LET hidden == HiddenIndices(g, client_wariness, now, checks)
         IN  [panic |-> FALSE,
              graph |-> Graph(g.nodes, SelectSeq(g.edges, LAMBDA e : e[1] \notin hidden))]

\* Mutant: a graph with at most two edges is returned as it is.
throttle_rollouts_unless_short(g, client_wariness, now, checks) ==
    IF ThrottlePanics(g, now, checks) THEN [panic |-> TRUE]
    ELSE LET hidden == HiddenIndices(g, client_wariness, now, checks)
         IN  [panic |-> FALSE,
              graph |-> IF Len(g.edges) <= 2 THEN g
                        ELSE Graph(g.nodes,
                                   SelectSeq(g.edges, LAMBDA e : e[2] \notin hidden))]

\* Graph::throttle_rollouts, with chrono::Utc::now().timestamp() = now.
throttle_rollouts(g, client_wariness, now, checks) ==
    IF ThrottlePanics(g, now, checks) THEN [panic |-> TRUE]
    ELSE LET hidden == HiddenIndices(g, client_wariness, now, checks)
         IN  [panic |-> FALSE,
              graph |-> Graph(g.nodes, SelectSeq(g.edges, LAMBDA e : e[2] \notin hidden))]

\* ------------------------------------------------------------------------
\* policy.rs
\* ------------------------------------------------------------------------
\* metadata::DEADEND
metadata_DEADEND == "org.fedoraproject.coreos.updates.deadend"

\* Vec::retain with the closure |(from, _to)| !deadends.contains(from):
\* the elements are visited once, front to back, and the kept ones stay
\* in their order.
RECURSIVE Retain(_, _)
Retain(edges, deadends) ==
    IF Len(edges) = 0 THEN <<>>
    ELSE IF Head(edges)[1] \in deadends
         THEN Retain(Tail(edges), deadends)
         ELSE <<Head(edges)>> \o Retain(Tail(edges), deadends)

\* The index set `deadends` of policy::filter_deadends.
PolicyDeadendIndices(input) ==
    {i \in 0..(Len(input.nodes) - 1) :
        Has(input.nodes[i + 1].metadata, metadata_DEADEND)
        /\ input.nodes[i + 1].metadata[metadata_DEADEND] = "true"}

\* Mutant: edges whose source is not a node of the graph are dropped too.
policy_filter_deadends_in_range(input) ==
    LET deadends == PolicyDeadendIndices(input)
                    \cup ({input.edges[k][1] : k \in 1..Len(input.edges)}
                              \ (0..(Len(input.nodes) - 1)))
    IN  Graph(input.nodes, Retain(input.edges, deadends))

\* policy::filter_deadends (shrink_to_fit changes the capacity only).
policy_filter_deadends(input) ==
    Graph(input.nodes, Retain(input.edges, PolicyDeadendIndices(input)))

\* ------------------------------------------------------------------------
\* Inputs: what upstream may deliver and what clients may ask
\* ------------------------------------------------------------------------
Commit(arch, checksum) == [architecture |-> arch, checksum |-> checksum]

Release(version, commits) == [version |-> version, commits |-> commits, metadata |-> ""]

Rollout(version, start_epoch, start_value, duration_minutes) ==
    [version |-> version, start_epoch |-> start_epoch,
     start_value |-> start_value, duration_minutes |-> duration_minutes]

RelA == Release("A", <<Commit("x86_64", "cA")>>)
RelB == Release("B", <<Commit("aarch64", "cB-arm"), Commit("x86_64", "cB")>>)
RelC == Release("C", <<Commit("x86_64", "cC")>>)
RelNoCommits == Release("D", <<>>)

\* Release lists a releases.json may hold.
ReleaseLists == {<<>>, <<RelA, RelB, RelC>>, <<RelA, RelNoCommits>>}

SomeUpdates ==
    [barriers |-> <<[version |-> "FOO", reason |-> "BAR"]>>,
     deadends |-> <<[version |-> "A", reason |-> ""],
                    [version |-> "A", reason |-> "second"]>>,
     rollouts |-> <<Rollout("B", <<"9">>, <<"1">>, None),
                    Rollout("C", <<"1", "0">>, <<"0", ".", "0">>, Some(<<"1">>)),
                    Rollout("B", <<"1", "0">>, <<"0", ".", "5">>, Some(<<"2">>))>>]

\* Updates documents the stream metadata future may resolve to.
UpdatesSet == {SomeUpdates}

Err == [ok |-> FALSE]
Ok(v) == [ok |-> TRUE, val |-> v]

\* Outcomes of the two upstream futures of one refresh cycle.
ReleasesOutcomes == {Err} \cup {Ok(r) : r \in ReleaseLists}
UpdatesOutcomes == {Err} \cup {Ok(u) : u \in UpdatesSet}

\* Client wariness values and request times used by the request handler.
WarinessValues == {Rat(4, 10), Rat(6, 10)}
Times == {5, 40, 200}

Requests == 1..MaxRequests

\* ------------------------------------------------------------------------
\* State
\* ------------------------------------------------------------------------
VARIABLES
    actor,            \* "created", "running" or "panicked"
    graph,            \* Scraper.graph
    waiting,          \* a ctx.wait future stops the actor's message loop
    inflight,         \* refresh futures created and not yet resolved
    stream_updates,   \* outcome of mock_stream_updates for the cycle in flight
    ticks_now,        \* RefreshTick messages posted by ctx.notify
    ticks_later,      \* RefreshTick messages posted by ctx.notify_later
    upstream_scrapes, \* UPSTREAM_SCRAPES
    graph_final_releases, \* GRAPH_FINAL_RELEASES
    mailbox,          \* GetCachedGraph messages sent and not yet handled
    reqs,             \* the callers of GetCachedGraph (/v1/graph requests)
    overflow_checks,  \* the build panics on integer overflow
    pol,              \* the functions studied on their own: stage and data
    swaps,            \* history: number of successful refreshes
    published,        \* history: the graph the last successful build returned
    last_cycle        \* history: how the last resolved cycle ended

vars == <<actor, graph, waiting, inflight, stream_updates, ticks_now, ticks_later,
          upstream_scrapes, graph_final_releases, mailbox, reqs, overflow_checks,
          pol, swaps, published, last_cycle>>

build_vars == <<overflow_checks, pol>>

scraper_vars == <<actor, graph, waiting, inflight, stream_updates, ticks_now,
                  ticks_later, upstream_scrapes, graph_final_releases,
                  swaps, published, last_cycle>>

\* No function is exercised on its own.
PolicyOff == [stage |-> "off"]

\* A request before it is received. sent_swaps, served_swaps and
\* served_after are history: the number of successful refreshes when the
\* message was sent and when it was handled, and how the last refresh
\* cycle had ended when it was handled.
NewRequest ==
    [pc |-> "new", reply |-> Err, body |-> GraphDefault,
     sent_swaps |-> 0, served_swaps |-> 0, served_after |-> "none"]

\* GetCachedGraph::default()
GetCachedGraphDefault == [basearch |-> "x86_64", stream |-> "testing"]

\* Scraper::new and main up to sys.run(); the deployed binary is a release
\* build (no overflow checks).
Init ==
    /\ actor = "created"
    /\ graph = GraphDefault
    /\ waiting = FALSE
    /\ inflight = 0
    /\ stream_updates = Err
    /\ ticks_now = 0
    /\ ticks_later = 0
    /\ upstream_scrapes = 0
    /\ graph_final_releases = 0
    /\ mailbox = <<>>
    /\ reqs = [r \in Requests |-> NewRequest]
    /\ overflow_checks = FALSE
    /\ pol = PolicyOff
    /\ swaps = 0
    /\ published = GraphDefault
    /\ last_cycle = "none"

\* ------------------------------------------------------------------------
\* Scraper actor (scraper.rs)
\* ------------------------------------------------------------------------
\* Scraper::tick_now
tick_now(n) == n + 1

\* Mutant: two RefreshTick messages are scheduled.
tick_later_twice(n) == n + 2

\* Scraper::tick_later
tick_later(n) == n + 1

\* Actor::started
Started ==
    /\ actor = "created"
    /\ actor' = "running"
    /\ ticks_now' = tick_now(ticks_now)
    /\ UNCHANGED <<graph, waiting, inflight, stream_updates, ticks_later,
                   upstream_scrapes, graph_final_releases, mailbox, reqs,
                   build_vars, swaps, published, last_cycle>>

\* Mutant: the refresh future is spawned, not waited for, and the handler
\* schedules the next tick itself.
RefreshTickSpawn(c) ==
    [inflight |-> c.inflight + 1, waiting |-> FALSE, ticks_later |-> c.ticks_later + 1]

\* What Handler<RefreshTick>::handle leaves behind when it returns: the
\* refresh future is handed to ctx.wait, and no tick is scheduled yet.
RefreshTickHandle(c) ==
    [inflight |-> c.inflight + 1, waiting |-> TRUE, ticks_later |-> c.ticks_later]

\* Handler<RefreshTick>::handle, for a tick posted by notify ("now") or by
\* notify_later ("later", its delay elapsed).
HandleRefreshTick(src) ==
    /\ actor = "running"
    /\ ~waiting
    /\ upstream_scrapes < MaxRefreshes
    /\ IF src = "now" THEN ticks_now > 0 ELSE ticks_later > 0
    /\ upstream_scrapes' = upstream_scrapes + 1
    /\ \E u \in UpdatesOutcomes : stream_updates' = u
    /\ LET taken == IF src = "now" THEN ticks_later ELSE ticks_later - 1
           h == RefreshTickHandle([inflight |-> inflight, ticks_later |-> taken])
       IN  /\ inflight' = h.inflight
           /\ waiting' = h.waiting
           /\ ticks_later' = h.ticks_later
    /\ ticks_now' = IF src = "now" THEN ticks_now - 1 ELSE ticks_now
    /\ UNCHANGED <<actor, graph, graph_final_releases, mailbox, reqs,
                   build_vars, swaps, published, last_cycle>>

\* assemble_graph: releases.join(stream_updates).and_then(from_metadata).
\* The _release_metas future is built and dropped without being polled.
assemble_graph(releases, updates) ==
    IF ~releases.ok \/ ~updates.ok THEN [panic |-> FALSE, ok |-> FALSE]
    ELSE LET built == from_metadata(releases.val, updates.val)
         IN  IF built.panic THEN [panic |-> TRUE]
             ELSE [panic |-> FALSE, ok |-> TRUE, val |-> built.graph]

\* Mutant: only the nodes are replaced.
UpdateGraphNodesOnly(actor_graph, built) == Graph(built.nodes, actor_graph.edges)

\* Mutant: the new graph is stored in a copy of the actor.
UpdateGraphStale(actor_graph, built) == actor_graph

\* actor.graph = graph
UpdateGraph(actor_graph, built) == built

\* Mutant: an error clears the cache.
GraphAfterErrorCleared(actor_graph) == GraphDefault

\* actor.graph on the error path: map_err only logs.
GraphAfterError(actor_graph) == actor_graph

\* The refresh future resolves with an error: map_err logs it, map is
\* skipped, then schedules the next tick.
RefreshFails(releases) ==
    /\ actor = "running"
    /\ inflight > 0
    /\ LET updates == assemble_graph(releases, stream_updates)
       IN  ~updates.panic /\ ~updates.ok
    /\ graph' = GraphAfterError(graph)
    /\ inflight' = inflight - 1
    /\ waiting' = FALSE
    /\ ticks_later' = tick_later(ticks_later)
    /\ last_cycle' = "failed"
    /\ UNCHANGED <<actor, stream_updates, ticks_now, upstream_scrapes,
                   graph_final_releases, mailbox, reqs, build_vars,
                   swaps, published>>

\* The refresh future resolves with a graph: map stores it and sets the
\* gauges (LAST_REFRESH, a wall-clock reading, is not modelled), then
\* schedules the next tick.
RefreshSucceeds(releases) ==
    /\ actor = "running"
    /\ inflight > 0
    /\ LET updates == assemble_graph(releases, stream_updates)
       IN  /\ ~updates.panic /\ updates.ok
           /\ graph' = UpdateGraph(graph, updates.val)
           /\ published' = updates.val
    /\ graph_final_releases' = Len(graph'.nodes)
    /\ swaps' = swaps + 1
    /\ inflight' = inflight - 1
    /\ waiting' = FALSE
    /\ ticks_later' = tick_later(ticks_later)
    /\ last_cycle' = "ok"
    /\ UNCHANGED <<actor, stream_updates, ticks_now, upstream_scrapes,
                   mailbox, reqs, build_vars>>

\* from_metadata panics while the refresh future is polled: the panic
\* unwinds through the actor's context and the thread running it (the
\* main thread, blocked in sys.run()); nothing runs afterwards.
RefreshPanics(releases) ==
    /\ actor = "running"
    /\ inflight > 0
    /\ assemble_graph(releases, stream_updates).panic
    /\ actor' = "panicked"
    /\ last_cycle' = "panicked"
    /\ UNCHANGED <<graph, waiting, inflight, stream_updates, ticks_now, ticks_later,
                   upstream_scrapes, graph_final_releases, mailbox, reqs,
                   build_vars, swaps, published>>

\* The reply of Handler<GetCachedGraph>::handle: ok(self.graph.clone())
GetCachedGraphReply(self_graph) == Ok(self_graph)

\* Mutant: the graph is moved out of the actor (std::mem::take).
GraphAfterGetTaken(self_graph) == GraphDefault

\* self.graph after Handler<GetCachedGraph>::handle
GraphAfterGet(self_graph) == self_graph

\* assert_eq!(msg.basearch, "x86_64"); assert_eq!(msg.stream, "testing")
AssertsHold(msg) == msg.basearch = "x86_64" /\ msg.stream = "testing"

\* Handler<GetCachedGraph>::handle for the oldest message of the mailbox.
\* A failed assert_eq! panics, like from_metadata above.
HandleGetCachedGraph ==
    /\ actor = "running"
    /\ ~waiting
    /\ Len(mailbox) > 0
    /\ mailbox' = Tail(mailbox)
    /\ IF AssertsHold(Head(mailbox).msg)
       THEN /\ LET r == Head(mailbox).from
               IN  reqs' = [reqs EXCEPT ![r].pc = "replied",
                                        ![r].reply = GetCachedGraphReply(graph),
                                        ![r].served_swaps = swaps,
                                        ![r].served_after = last_cycle]
            /\ graph' = GraphAfterGet(graph)
            /\ UNCHANGED actor
       ELSE /\ actor' = "panicked"
            /\ UNCHANGED <<reqs, graph>>
    /\ UNCHANGED <<waiting, inflight, stream_updates, ticks_now, ticks_later,
                   upstream_scrapes, graph_final_releases, build_vars,
                   swaps, published, last_cycle>>

\* ------------------------------------------------------------------------
\* Request handler (main.rs)
\* ------------------------------------------------------------------------
\* Addr::send of a GetCachedGraph message on behalf of request r.
\* Requests are numbered in the order they arrive.
Send(r, msg) ==
    /\ actor # "panicked"
    /\ reqs[r].pc = "new"
    /\ \A q \in 1..(r - 1) : reqs[q].pc # "new"
    /\ reqs' = [reqs EXCEPT ![r].pc = "sent", ![r].sent_swaps = swaps]
    /\ mailbox' = Append(mailbox, [from |-> r, msg |-> msg])
    /\ UNCHANGED <<scraper_vars, build_vars>>

\* serve_graph up to the send: ask the scraper with
\* GetCachedGraph::default().
ServeGraphSend(r) == Send(r, GetCachedGraphDefault)

\* serve_graph once the reply is in: flatten, throttle_rollouts,
\* filter_deadends and the response. wariness is the value serve_graph
\* derived from the request's node_uuid before the send; nothing reads it
\* before this point, so it is drawn here. The reply and the intermediate
\* graphs are moved into the pipeline and gone afterwards.
ServeGraphRespond(r) ==
    /\ actor # "panicked"
    /\ reqs[r].pc = "replied"
    /\ \E now \in Times, wariness \in WarinessValues :
          LET throttled == throttle_rollouts(reqs[r].reply.val, wariness,
                                             now, overflow_checks)
          IN  reqs' = [reqs EXCEPT ![r] =
                        IF ~reqs[r].reply.ok
                        THEN [NewRequest EXCEPT !.pc = "error"]
                        ELSE IF throttled.panic
                        THEN [NewRequest EXCEPT !.pc = "panicked"]
                        ELSE [NewRequest EXCEPT !.pc = "done",
                                                !.body = filter_deadends(throttled.graph)]]
    /\ UNCHANGED <<scraper_vars, mailbox, build_vars>>

Next ==
    \/ Started
    \/ \E src \in {"now", "later"} : HandleRefreshTick(src)
    \/ \E releases \in ReleasesOutcomes : RefreshFails(releases)
    \/ \E releases \in ReleasesOutcomes : RefreshSucceeds(releases)
    \/ \E releases \in ReleasesOutcomes : RefreshPanics(releases)
    \/ HandleGetCachedGraph
    \/ \E r \in Requests : ServeGraphSend(r)
    \/ \E r \in Requests : ServeGraphRespond(r)

Spec == Init /\ [][Next]_vars

\* Some outcome of the upstream fetches of the cycle in flight.
RefreshResolves ==
    \E releases \in ReleasesOutcomes :
        \/ RefreshFails(releases)
        \/ RefreshSucceeds(releases)
        \/ RefreshPanics(releases)

\* The program with its scheduling: sys.run() starts the actor, the
\* refresh future in flight is polled until it resolves (each upstream
\* fetch completes or fails), and the running actor takes the messages of
\* its mailbox.
SpecFair ==
    /\ Spec
    /\ WF_vars(Started)
    /\ WF_vars(RefreshResolves)
    /\ WF_vars(HandleGetCachedGraph)

\* ------------------------------------------------------------------------
\* Any holder of the scraper's address may send any GetCachedGraph
\* ------------------------------------------------------------------------
Arches == {"x86_64", "aarch64"}
Streams == {"testing", "stable"}

\* Addr::send(GetCachedGraph { basearch, stream })
SendGetCachedGraph(r, basearch, stream) ==
    Send(r, [basearch |-> basearch, stream |-> stream])

NextAnyCaller ==
    \/ Next
    \/ \E r \in Requests, basearch \in Arches, stream \in Streams :
          SendGetCachedGraph(r, basearch, stream)

SpecAnyCaller == Init /\ [][NextAnyCaller]_vars

\* ------------------------------------------------------------------------
\* The policy pipeline of serve_graph on graphs of any shape
\* ------------------------------------------------------------------------
MaxNodes == 2

Node(version, metadata) == [version |-> version, payload |-> "c", metadata |-> metadata]

\* Nodes with the metadata the policy stages read.
PolicyNodes ==
    {Node("plain", Insert(<<>>, SCHEME, "checksum")),
     Node("dead", Insert(<<>>, DEADEND, "true")),
     Node("notdead", Insert(<<>>, DEADEND, "false")),
     Node("ramp", Insert(Insert(Insert(<<>>, START_EPOCH, <<"1", "0">>),
                                START_VALUE, <<"0", ".", "0">>),
                         DURATION, <<"1">>)),
     Node("step", Insert(<<>>, START_VALUE, <<"0", ".", "5">>)),
     Node("late", Insert(Insert(Insert(<<>>, START_EPOCH, to_string(I64_MAX)),
                                START_VALUE, <<"x">>),
                         DURATION, <<"1">>))}

RECURSIVE SeqsUpTo(_, _)
SeqsUpTo(S, n) ==
    IF n = 0 THEN {<<>>}
    ELSE SeqsUpTo(S, n - 1)
         \cup {Append(q, x) : q \in {p \in SeqsUpTo(S, n - 1) : Len(p) = n - 1}, x \in S}

\* Edge lists, with endpoints inside and outside of short node lists.
PolicyEdgeLists ==
    {<<>>,
     <<<<0, 1>>, <<1, 0>>>>,
     SynthesizedEdges,
     <<<<1, 1>>, <<2, 0>>, <<0, 1>>, <<1, 0>>>>}

PolicyGraphs == {Graph(n, e) : n \in SeqsUpTo(PolicyNodes, MaxNodes), e \in PolicyEdgeLists}

PolicyWariness == {Rat(0, 1), Rat(4, 10), Rat(6, 10), Rat(1, 1)}

InitPolicy ==
    /\ actor = "created"
    /\ graph = GraphDefault
    /\ waiting = FALSE
    /\ inflight = 0
    /\ stream_updates = Err
    /\ ticks_now = 0
    /\ ticks_later = 0
    /\ upstream_scrapes = 0
    /\ graph_final_releases = 0
    /\ mailbox = <<>>
    /\ reqs = [r \in Requests |-> NewRequest]
    /\ overflow_checks \in BOOLEAN
    /\ pol \in {[stage |-> "input", g |-> g, w |-> w, now |-> now, mid |-> g, out |-> g] :
                  g \in PolicyGraphs, w \in PolicyWariness, now \in Times}
    /\ swaps = 0
    /\ published = GraphDefault
    /\ last_cycle = "none"

\* .map(move |graph| graph.throttle_rollouts(wariness))
PolicyThrottle ==
    /\ pol.stage = "input"
    /\ LET throttled == throttle_rollouts(pol.g, pol.w, pol.now, overflow_checks)
       IN  pol' = IF throttled.panic
                  THEN [pol EXCEPT !.stage = "panicked"]
                  ELSE [pol EXCEPT !.stage = "throttled", !.mid = throttled.graph]
    /\ UNCHANGED <<scraper_vars, mailbox, reqs, overflow_checks>>

\* .map(|graph| graph.filter_deadends())
PolicyFilter ==
    /\ pol.stage = "throttled"
    /\ pol' = [pol EXCEPT !.stage = "filtered", !.out = filter_deadends(pol.mid)]
    /\ UNCHANGED <<scraper_vars, mailbox, reqs, overflow_checks>>

NextPolicy == PolicyThrottle \/ PolicyFilter

SpecPolicy == InitPolicy /\ [][NextPolicy]_vars

\* ------------------------------------------------------------------------
\* Each policy stage applied repeatedly to a graph of any shape
\* ------------------------------------------------------------------------
MaxApplications == 2

\* The scraper is not started; pol holds the input of the functions under
\* study, and the build is of either kind.
HarnessInit(inputs) ==
    /\ actor = "created"
    /\ graph = GraphDefault
    /\ waiting = FALSE
    /\ inflight = 0
    /\ stream_updates = Err
    /\ ticks_now = 0
    /\ ticks_later = 0
    /\ upstream_scrapes = 0
    /\ graph_final_releases = 0
    /\ mailbox = <<>>
    /\ reqs = [r \in Requests |-> NewRequest]
    /\ overflow_checks \in BOOLEAN
    /\ pol \in inputs
    /\ swaps = 0
    /\ published = GraphDefault
    /\ last_cycle = "none"

\* f and t are the graphs returned by the successive calls of
\* filter_deadends and of throttle_rollouts, the first call on g and each
\* later call on the result of the one before.
InitStages ==
    HarnessInit({[stage |-> "stages", g |-> g, w |-> w, now |-> now,
                  f |-> <<>>, t |-> <<>>, t_panicked |-> FALSE] :
                    g \in PolicyGraphs, w \in PolicyWariness, now \in Times})

Last(seq, first) == IF Len(seq) = 0 THEN first ELSE seq[Len(seq)]

\* graph.filter_deadends()
StageFilter ==
    /\ pol.stage = "stages"
    /\ Len(pol.f) < MaxApplications
    /\ pol' = [pol EXCEPT !.f = Append(@, filter_deadends(Last(pol.f, pol.g)))]
    /\ UNCHANGED <<scraper_vars, mailbox, reqs, overflow_checks>>

\* graph.throttle_rollouts(wariness), all calls within the second `now`.
StageThrottle ==
    /\ pol.stage = "stages"
    /\ Len(pol.t) < MaxApplications
    /\ ~pol.t_panicked
    /\ LET throttled == throttle_rollouts(Last(pol.t, pol.g), pol.w, pol.now,
                                          overflow_checks)
       IN  pol' = IF throttled.panic
                  THEN [pol EXCEPT !.t_panicked = TRUE]
                  ELSE [pol EXCEPT !.t = Append(@, throttled.graph)]
    /\ UNCHANGED <<scraper_vars, mailbox, reqs, overflow_checks>>

NextStages == StageFilter \/ StageThrottle

SpecStages == InitStages /\ [][NextStages]_vars

\* ------------------------------------------------------------------------
\* Two ways to the same graph: the stages in both orders, and the two
\* implementations of the dead-end filter
\* ------------------------------------------------------------------------
\* tf: throttle_rollouts on g, then filter_deadends on its result.
\* ft: filter_deadends on g, then throttle_rollouts on its result.
\* pf: policy::filter_deadends on g. A call that panicked adds its track
\* to panicked.
InitPairs ==
    HarnessInit({[stage |-> "pairs", g |-> g, w |-> w, now |-> now,
                  tf |-> <<>>, ft |-> <<>>, pf |-> <<>>, panicked |-> {}] :
                    g \in PolicyGraphs, w \in PolicyWariness, now \in Times})

\* The track after a call of throttle_rollouts.
Throttled(p, track, throttled) ==
    IF throttled.panic
    THEN [p EXCEPT !.panicked = p.panicked \cup {track}]
    ELSE [p EXCEPT ![track] = Append(p[track], throttled.graph)]

\* g.throttle_rollouts(wariness)
PairsThrottleFirst ==
    /\ pol.stage = "pairs"
    /\ Len(pol.tf) = 0 /\ "tf" \notin pol.panicked
    /\ pol' = Throttled(pol, "tf",
                        throttle_rollouts(pol.g, pol.w, pol.now, overflow_checks))
    /\ UNCHANGED <<scraper_vars, mailbox, reqs, overflow_checks>>

\* .filter_deadends() on the throttled graph
PairsFilterSecond ==
    /\ pol.stage = "pairs"
    /\ Len(pol.tf) = 1
    /\ pol' = [pol EXCEPT !.tf = Append(pol.tf, filter_deadends(pol.tf[1]))]
    /\ UNCHANGED <<scraper_vars, mailbox, reqs, overflow_checks>>

\* g.filter_deadends()
PairsFilterFirst ==
    /\ pol.stage = "pairs"
    /\ Len(pol.ft) = 0
    /\ pol' = [pol EXCEPT !.ft = <<filter_deadends(pol.g)>>]
    /\ UNCHANGED <<scraper_vars, mailbox, reqs, overflow_checks>>

\* .throttle_rollouts(wariness) on the filtered graph, in the same second
PairsThrottleSecond ==
    /\ pol.stage = "pairs"
    /\ Len(pol.ft) = 1 /\ "ft" \notin pol.panicked
    /\ pol' = Throttled(pol, "ft",
                        throttle_rollouts(pol.ft[1], pol.w, pol.now, overflow_checks))
    /\ UNCHANGED <<scraper_vars, mailbox, reqs, overflow_checks>>

\* policy::filter_deadends(g)
PairsPolicyFilter ==
    /\ pol.stage = "pairs"
    /\ Len(pol.pf) = 0
    /\ pol' = [pol EXCEPT !.pf = <<policy_filter_deadends(pol.g)>>]
    /\ UNCHANGED <<scraper_vars, mailbox, reqs, overflow_checks>>

NextPairs ==
    \/ PairsThrottleFirst
    \/ PairsFilterSecond
    \/ PairsFilterFirst
    \/ PairsThrottleSecond
    \/ PairsPolicyFilter

SpecPairs == InitPairs /\ [][NextPairs]_vars

\* ------------------------------------------------------------------------
\* One client polling for one rolled-out release while time passes
\* ------------------------------------------------------------------------
\* An i64 as upstream writes it.
I64ToString(x) == IF x < 0 THEN <<"-">> \o to_string(-x) ELSE to_string(x)

RolloutNode(version, start_epoch, start_value, duration) ==
    Node(version, Insert(Insert(Insert(<<>>, START_EPOCH, start_epoch),
                                START_VALUE, start_value),
                         DURATION, duration))

\* The least number of minutes whose seconds do not fit an i64.
LongMinutes == (I64_MAX \div 60) + 1

\* Rolled-out releases: ordinary ones, and ones whose start or duration
\* is near the ends of the integer ranges.
RolloutNodes ==
    {RolloutNode("example", to_string(1000), <<"0">>, to_string(10)),
     RolloutNode("half", to_string(1000), <<"0", ".", "5">>, to_string(10)),
     RolloutNode("zero", to_string(1000), <<"0">>, to_string(0)),
     RolloutNode("long", to_string(1000), <<"0">>, to_string(LongMinutes)),
     RolloutNode("early", I64ToString(I64_MIN + 1300), <<"0">>, to_string(LongMinutes)),
     RolloutNode("late", to_string(I64_MAX), <<"0">>, to_string(1)),
     Node("nodur", Insert(Insert(<<>>, START_EPOCH, to_string(1000)),
                          START_VALUE, <<"0", ".", "5">>))}

\* The seconds at which the client asks, in order.
RolloutTimes ==
    <<I64_MIN, 0, 999, 1000, 1030, 1060, 1061, 1299, 1300, 1600, 1601, I64_MAX>>

RolloutWariness == {Rat(1, 100), Rat(4, 10), Rat(5, 10), Rat(6, 10), Rat(1, 1)}

\* The cached graph: an edge from an ordinary release to the rolled-out one.
RolloutGraph(node) ==
    Graph(<<Node("plain", Insert(<<>>, SCHEME, "checksum")), node>>, <<<<0, 1>>>>)

\* clock: the position in RolloutTimes of the current second. result: what
\* the client got at this second. ever_offered and lost are history: the
\* edge was offered at an earlier poll, and it was missing at a poll after
\* one that offered it.
InitRollout ==
    HarnessInit({[stage |-> "rollout", node |-> node, w |-> w, clock |-> 1,
                  result |-> "none", ever_offered |-> FALSE, lost |-> FALSE] :
                    node \in RolloutNodes, w \in RolloutWariness})

\* What the client finds in the graph throttle_rollouts returned.
PollOutcome(throttled) ==
    IF throttled.panic THEN "panicked"
    ELSE IF Len(throttled.graph.edges) = 1 THEN "offered" ELSE "hidden"

\* The record of the poll and of the polls before it.
AfterPoll(p, outcome) ==
    [p EXCEPT !.result = outcome,
              !.ever_offered = p.ever_offered \/ outcome = "offered",
              !.lost = p.lost \/ (p.ever_offered /\ outcome = "hidden")]

\* The client asks: graph.throttle_rollouts(wariness) at the current second.
RolloutPoll ==
    /\ pol.stage = "rollout"
    /\ pol.result = "none"
    /\ pol' = AfterPoll(pol, PollOutcome(throttle_rollouts(RolloutGraph(pol.node), pol.w,
                                                           RolloutTimes[pol.clock],
                                                           overflow_checks)))
    /\ UNCHANGED <<scraper_vars, mailbox, reqs, overflow_checks>>

\* Time passes (chrono::Utc::now() of the next call is later).
RolloutClock ==
    /\ pol.stage = "rollout"
    /\ pol.clock < Len(RolloutTimes)
    /\ pol' = [pol EXCEPT !.clock = pol.clock + 1, !.result = "none"]
    /\ UNCHANGED <<scraper_vars, mailbox, reqs, overflow_checks>>

NextRollout == RolloutPoll \/ RolloutClock

SpecRollout == InitRollout /\ [][NextRollout]_vars

\* ------------------------------------------------------------------------
\* Two requests and the wariness serve_graph derives for each
\* ------------------------------------------------------------------------
\* The keys a SipHasher13 can be built with (two of them).
HasherKeys == {<<0, 0>>, <<1, 2>>}

\* Mutant: RandomState::new().build_hasher(), keys drawn at random.
RandomStateKeys == HasherKeys

\* DefaultHasher::new() is SipHasher13::new_with_keys(0, 0).
DefaultHasherKeys == {<<0, 0>>}

\* Values of the node_uuid query parameter: absent, empty, some string.
UuidStrings == {<<>>, <<"a">>}
NodeUuidParams == {None} \cup {Some(u) : u \in UuidStrings}

\* req.query().get("node_uuid").map(String::from).unwrap_or_default()
UuidOf(param) == IF param.some THEN param.val ELSE <<>>

\* Digests: the least, the greatest and one in the middle.
Digests == {0, U64_MAX \div 2, U64_MAX}

\* SipHash-1-3 is a function of the keys and of the bytes written; which
\* function is left open: every one over the domain above is tried.
SipFunctions == [HasherKeys \X UuidStrings -> Digests]

\* const COMPUTED_MIN: f64 = 0.0 + 0.000001; const COMPUTED_MAX: f64 = 1.0
COMPUTED_MIN == Rat(1, 1000000)
COMPUTED_MAX == Rat(1, 1)

\* The block `let wariness = { ... }` of serve_graph from the digest on:
\* scale down, clamp within limits.
Wariness(digest) ==
    LET scaled == Rat(digest, U64_MAX)
    IN  MinF64(MaxF64(scaled, COMPUTED_MIN), COMPUTED_MAX)

WarinessGraphs ==
    {RolloutGraph(RolloutNode("example", to_string(1000), <<"0">>, to_string(10))),
     RolloutGraph(RolloutNode("half", to_string(1000), <<"0", ".", "5">>, to_string(10)))}

WarinessTimes == {999, 1300, 1601}

TwoRequests == {1, 2}

\* sip: the hash function. uuid, wariness, out: per request, the
\* node_uuid parameter, the wariness derived and the graph returned.
InitWariness ==
    HarnessInit({[stage |-> "wariness", sip |-> sip, g |-> g, now |-> now,
                  uuid |-> <<u1, u2>>, wariness |-> <<None, None>>,
                  out |-> <<None, None>>] :
                    sip \in SipFunctions, g \in WarinessGraphs, now \in WarinessTimes,
                    u1 \in NodeUuidParams, u2 \in NodeUuidParams})

\* serve_graph up to and including `let wariness`.
WarinessDerive(i) ==
    /\ pol.stage = "wariness"
    /\ ~pol.wariness[i].some
    /\ \E keys \in DefaultHasherKeys :
          LET digest == pol.sip[<<keys, UuidOf(pol.uuid[i])>>]
          IN  pol' = [pol EXCEPT !.wariness[i] = Some(Wariness(digest))]
    /\ UNCHANGED <<scraper_vars, mailbox, reqs, overflow_checks>>

\* The rest of serve_graph on the cached graph g at the second now.
WarinessServe(i) ==
    /\ pol.stage = "wariness"
    /\ pol.wariness[i].some
    /\ ~pol.out[i].some
    /\ LET throttled == throttle_rollouts(pol.g, pol.wariness[i].val, pol.now,
                                          overflow_checks)
       IN  /\ ~throttled.panic
           /\ pol' = [pol EXCEPT !.out[i] = Some(filter_deadends(throttled.graph))]
    /\ UNCHANGED <<scraper_vars, mailbox, reqs, overflow_checks>>

NextWariness ==
    \/ \E i \in TwoRequests : WarinessDerive(i)
    \/ \E i \in TwoRequests : WarinessServe(i)

SpecWariness == InitWariness /\ [][NextWariness]_vars

\* ------------------------------------------------------------------------
\* The builder on updates documents with any list of rollouts
\* ------------------------------------------------------------------------
MaxRollouts == 2

\* Entries of updates.rollouts: two versions, with and without a
\* duration, one written in a form no formatter would produce.
RolloutEntries ==
    {Rollout("B", <<"9">>, <<"1">>, None),
     Rollout("B", <<"1", "0">>, <<"0", ".", "5">>, Some(<<"2">>)),
     Rollout("C", <<"+", "0", "7">>, <<".", "5", "0">>, Some(<<"0", "3">>)),
     Rollout("C", <<"8">>, <<"x">>, None)}

BuilderUpdates ==
    {[barriers |-> <<>>,
      deadends |-> <<[version |-> "A", reason |-> ""]>>,
      rollouts |-> r] : r \in SeqsUpTo(RolloutEntries, MaxRollouts)}

InitBuilder ==
    HarnessInit({[stage |-> "build", releases |-> rel, updates |-> u,
                  built |-> [panic |-> FALSE, graph |-> GraphDefault]] :
                    rel \in ReleaseLists, u \in BuilderUpdates})

\* graph::Graph::from_metadata(graph, updates)
BuilderBuild ==
    /\ pol.stage = "build"
    /\ pol' = [pol EXCEPT !.stage = "built",
                          !.built = from_metadata(pol.releases, pol.updates)]
    /\ UNCHANGED <<scraper_vars, mailbox, reqs, overflow_checks>>

NextBuilder == BuilderBuild

SpecBuilder == InitBuilder /\ [][NextBuilder]_vars

\* ------------------------------------------------------------------------
\* Claims
\* ------------------------------------------------------------------------
Replied(r) == reqs[r].pc = "replied"

\* The step in which the scraper answers request r.
Answered(r) == reqs[r].pc = "sent" /\ reqs'[r].pc = "replied"

\* A graph some successful build can return.
IsBuildResult(g) ==
    \E rel \in ReleaseLists, u \in UpdatesSet :
        ~from_metadata(rel, u).panic /\ g = from_metadata(rel, u).graph

\* C1: every GetCachedGraph reply is, nodes and edges together, the
\* initial empty graph or the whole result of the last successful build,
\* and two replies with no successful refresh between them are equal.
C1_CompleteGraph ==
    /\ [][\A r \in Requests :
            Answered(r) =>
                /\ reqs'[r].reply = Ok(published)
                /\ published = GraphDefault \/ IsBuildResult(published)]_vars
    /\ [](\A r1, r2 \in Requests :
            Replied(r1) /\ Replied(r2) /\ reqs[r1].served_swaps = reqs[r2].served_swaps
                => reqs[r1].reply = reqs[r2].reply)

C1_Witness ==
    \E r1, r2 \in Requests :
        /\ r1 # r2 /\ Replied(r1) /\ Replied(r2)
        /\ reqs[r1].served_swaps = reqs[r2].served_swaps
        /\ reqs[r1].served_swaps > 0
        /\ reqs[r1].reply.val.nodes # <<>>

\* The step in which a refresh cycle ends with an error.
CycleFails == inflight > 0 /\ inflight' = inflight - 1 /\ swaps' = swaps

\* C2: a failed refresh cycle leaves the cached graph as it was, and a
\* GetCachedGraph handled after it is answered Ok with that graph; no
\* request ever ends with the upstream error.
C2_FailureKeepsGraph ==
    /\ [][CycleFails => graph' = graph /\ graph' = published]_vars
    /\ [][\A r \in Requests :
            Answered(r) /\ last_cycle = "failed" =>
                reqs'[r].reply = Ok(published) /\ graph' = graph]_vars
    /\ [](\A r \in Requests : reqs[r].pc # "error")

C2_Witness ==
    \E r \in Requests :
        /\ Replied(r) /\ reqs[r].served_after = "failed"
        /\ reqs[r].reply.ok /\ reqs[r].reply.val.nodes # <<>>

\* The step in which the refresh future of the cycle in flight resolves
\* or dies.
CycleEnds == waiting /\ (inflight' < inflight \/ actor' = "panicked")

\* C3: starting the scraper posts one RefreshTick, and the end of every
\* refresh cycle leaves exactly one RefreshTick scheduled.
C3_AlwaysRescheduled ==
    [][/\ actor = "created" /\ actor' = "running" => ticks_now' + ticks_later' = 1
       /\ CycleEnds => ticks_now' + ticks_later' = 1]_vars

\* C4: at most one refresh is in flight, a RefreshTick is handled only
\* when none is, and every swap is the end of the one cycle in flight.
C4_NoOverlap ==
    /\ [](inflight <= 1 /\ (inflight = 1 <=> waiting))
    /\ [][upstream_scrapes' # upstream_scrapes => inflight = 0 /\ inflight' = 1]_vars
    /\ [][swaps' # swaps => inflight = 1 /\ inflight' = 0 /\ swaps' = swaps + 1]_vars

C4_Witness == inflight = 1 /\ upstream_scrapes > 1 /\ swaps > 0

\* C5: a GetCachedGraph sent after a successful refresh is answered with
\* the graph of that refresh or of a later one: the graph of the latest
\* successful refresh at the time of the answer.
C5_ReadSeesRefresh ==
    [][\A r \in Requests :
         Answered(r) /\ reqs[r].sent_swaps > 0 =>
             /\ reqs'[r].served_swaps >= reqs[r].sent_swaps
             /\ reqs'[r].served_swaps = swaps
             /\ reqs'[r].reply = Ok(published)
             /\ IsBuildResult(published)]_vars

C5_Witness ==
    \E r \in Requests :
        /\ Replied(r) /\ reqs[r].sent_swaps > 0
        /\ reqs[r].served_swaps > reqs[r].sent_swaps
        /\ reqs[r].reply.val.nodes # <<>>

\* The step in which the scraper handles the message of request r, whose
\* (basearch, stream) is not the scraper's.
HandlesMismatch(r) ==
    /\ Len(mailbox) > 0
    /\ Head(mailbox).from = r
    /\ ~AssertsHold(Head(mailbox).msg)
    /\ mailbox' = Tail(mailbox)

\* C6: a GetCachedGraph for another (basearch, stream) is answered with
\* an error result, and the cached graph and the scraper are as before.
C6_MismatchIsError ==
    [][\A r \in Requests :
         HandlesMismatch(r) =>
             /\ reqs'[r].pc = "replied" /\ ~reqs'[r].reply.ok
             /\ graph' = graph
             /\ actor' = "running"]_vars

\* C7: serving requests never changes the cache: the cached graph is
\* always what the last successful refresh stored, and no step of a
\* request (send, answer, policy pipeline) changes it.
C7_ServingKeepsCache ==
    /\ [](graph = published)
    /\ [][reqs' # reqs \/ mailbox' # mailbox => graph' = graph]_vars

C7_Witness ==
    \E r1, r2 \in Requests :
        /\ reqs[r1].pc = "done"
        /\ reqs[r1].body.nodes = graph.nodes
        /\ Len(reqs[r1].body.edges) < Len(graph.edges)
        /\ graph.nodes # <<>>
        /\ Replied(r2) /\ reqs[r2].reply = Ok(graph)

\* C8: the graph returned to a client has the nodes of the cached graph,
\* unchanged and in order, and each of its edges is an edge of the cached
\* graph.
C8_PipelineOnlyRemovesEdges ==
    pol.stage = "filtered" =>
        /\ pol.out.nodes = pol.g.nodes
        /\ Len(pol.out.edges) <= Len(pol.g.edges)
        /\ \A i \in 1..Len(pol.out.edges) :
              \E j \in 1..Len(pol.g.edges) : pol.g.edges[j] = pol.out.edges[i]

C8_Witness ==
    /\ pol.stage = "filtered"
    /\ Len(pol.mid.edges) < Len(pol.g.edges)
    /\ Len(pol.out.edges) < Len(pol.mid.edges)
    /\ Len(pol.out.edges) > 0

EdgesValid(g) ==
    \A i \in 1..Len(g.edges) :
        /\ 0 <= g.edges[i][1] /\ g.edges[i][1] < Len(g.nodes)
        /\ 0 <= g.edges[i][2] /\ g.edges[i][2] < Len(g.nodes)
        /\ g.edges[i][1] # g.edges[i][2]

\* C9: every edge of a graph the builder returned, and so of the cached
\* graph, joins two different nodes of that graph.
C9_EdgesInRange == EdgesValid(published) /\ EdgesValid(graph)

\* C10: the builder returns no edges.
C10_BuilderNoEdges == published.edges = <<>>

\* The architecture the service is configured for.
ConfiguredArch == GetCachedGraphDefault.basearch

\* The fetched release a node was built from has a commit for arch
\* whose checksum is the node's payload.
PayloadOfArch(node, arch) ==
    \E rel \in ReleaseLists : \E i \in 1..Len(rel) :
        /\ rel[i].version = node.version
        /\ \E j \in 1..Len(rel[i].commits) :
              /\ rel[i].commits[j].architecture = arch
              /\ rel[i].commits[j].checksum = node.payload

\* C11: every node of a built graph carries the checksum of its release's
\* commit for the configured architecture, and a release without such a
\* commit makes the refresh fail with an error value: the scraper goes on.
C11_PayloadOfArch ==
    /\ \A i \in 1..Len(published.nodes) : PayloadOfArch(published.nodes[i], ConfiguredArch)
    /\ last_cycle # "panicked" /\ actor # "panicked"

\* C20: a tick queued by startup, a tick waiting on the timer and a cycle
\* in flight are together at most one, and a tick is scheduled only by
\* startup or by the end of the cycle in flight.
C20_OneTickOutstanding ==
    /\ [](ticks_now + ticks_later + inflight <= 1)
    /\ [][ticks_now' + ticks_later' > ticks_now + ticks_later =>
             \/ actor = "created" /\ actor' = "running"
             \/ inflight = 1 /\ inflight' = 0]_vars

C20_Witness ==
    /\ ticks_later = 1 /\ ticks_now = 0 /\ inflight = 0
    /\ upstream_scrapes > 1

\* C14: a second call of filter_deadends returns what the first returned,
\* and so does a second call of throttle_rollouts with the same wariness
\* within the same second.
C14_StagesIdempotent ==
    pol.stage = "stages" =>
        /\ \A k \in 2..Len(pol.f) : pol.f[k] = pol.f[k - 1]
        /\ \A k \in 2..Len(pol.t) : pol.t[k] = pol.t[k - 1]

C14_Witness ==
    /\ pol.stage = "stages"
    /\ Len(pol.f) = 2 /\ Len(pol.t) = 2
    /\ Len(pol.f[1].edges) < Len(pol.g.edges) /\ Len(pol.f[1].edges) > 0
    /\ Len(pol.t[1].edges) < Len(pol.g.edges) /\ Len(pol.t[1].edges) > 0

\* The edges of a list whose endpoint at position pos (1: source,
\* 2: destination) is not in the set removed, in their order.
RECURSIVE KeepEdges(_, _, _)
KeepEdges(edges, pos, removed) ==
    IF Len(edges) = 0 THEN <<>>
    ELSE IF Head(edges)[pos] \in removed
         THEN KeepEdges(Tail(edges), pos, removed)
         ELSE <<Head(edges)>> \o KeepEdges(Tail(edges), pos, removed)

\* Index i (0-based) is a node of g marked as a dead end.
IsDeadend(g, i) ==
    /\ 0 <= i /\ i < Len(g.nodes)
    /\ DEADEND \in DOMAIN g.nodes[i + 1].metadata
    /\ g.nodes[i + 1].metadata[DEADEND] = "true"

\* C17: filter_deadends keeps the nodes and returns, in order, exactly the
\* edges whose source is not a dead end; edges into a dead end from other
\* nodes stay.
C17_FilterDeadends ==
    pol.stage = "filtered" =>
        /\ pol.out.nodes = pol.mid.nodes
        /\ pol.out.edges =
              KeepEdges(pol.mid.edges, 1,
                        {i \in 0..(Len(pol.mid.nodes) - 1) : IsDeadend(pol.mid, i)})
        /\ \A j \in 1..Len(pol.mid.edges) :
              LET e == pol.mid.edges[j]
              IN  /\ IsDeadend(pol.mid, e[1]) =>
                        \A k \in 1..Len(pol.out.edges) : pol.out.edges[k] # e
                  /\ ~IsDeadend(pol.mid, e[1]) =>
                        \E k \in 1..Len(pol.out.edges) : pol.out.edges[k] = e

C17_Witness ==
    /\ pol.stage = "filtered"
    /\ \E j \in 1..Len(pol.mid.edges) :
          /\ IsDeadend(pol.mid, pol.mid.edges[j][2])
          /\ ~IsDeadend(pol.mid, pol.mid.edges[j][1])
          /\ \E k \in 1..Len(pol.out.edges) : pol.out.edges[k] = pol.mid.edges[j]
    /\ Len(pol.out.edges) < Len(pol.mid.edges)

\* Index i (0-based) is a node of g that throttle_rollouts hides from a
\* client of wariness w at time now.
IsHidden(g, i, w, now) ==
    /\ 0 <= i /\ i < Len(g.nodes)
    /\ RolledOut(g.nodes[i + 1])
    /\ GreaterF64(w, Throttling(g.nodes[i + 1], now, overflow_checks).val)

\* Index i (0-based) is a node of g without rollout metadata.
NotRolledOut(g, i) ==
    /\ 0 <= i /\ i < Len(g.nodes)
    /\ START_EPOCH \notin DOMAIN g.nodes[i + 1].metadata
    /\ START_VALUE \notin DOMAIN g.nodes[i + 1].metadata

\* C18: throttle_rollouts keeps the nodes and returns, in order, exactly
\* the edges whose destination is not hidden; an edge leaving a hidden
\* node stays, and so does every edge into a node without start_epoch and
\* start_value.
C18_ThrottleRollouts ==
    pol.stage \in {"throttled", "filtered"} =>
        /\ pol.mid.nodes = pol.g.nodes
        /\ pol.mid.edges =
              KeepEdges(pol.g.edges, 2,
                        {i \in 0..(Len(pol.g.nodes) - 1) :
                            IsHidden(pol.g, i, pol.w, pol.now)})
        /\ \A j \in 1..Len(pol.g.edges) :
              NotRolledOut(pol.g, pol.g.edges[j][2]) =>
                  \E k \in 1..Len(pol.mid.edges) : pol.mid.edges[k] = pol.g.edges[j]

C18_Witness ==
    /\ pol.stage = "throttled"
    /\ Len(pol.mid.edges) < Len(pol.g.edges)
    /\ \E j \in 1..Len(pol.g.edges) :
          /\ IsHidden(pol.g, pol.g.edges[j][1], pol.w, pol.now)
          /\ NotRolledOut(pol.g, pol.g.edges[j][2])
          /\ \E k \in 1..Len(pol.mid.edges) : pol.mid.edges[k] = pol.g.edges[j]

\* The rollout parameters of the polled release, as throttle_rollouts
\* reads them; `some` where the release has a parseable duration.
RolloutParams(node) ==
    LET md == node.metadata
        pm == IF DURATION \in DOMAIN md THEN ParseU64(md[DURATION]) ELSE None
    IN  [s |-> ParseI64(md[START_EPOCH]).val,
         v |-> ParseF64(md[START_VALUE]).val,
         some |-> pm.some,
         m |-> IF pm.some THEN pm.val ELSE 0]

\* The throttling value as the ramp defines it, in unbounded arithmetic:
\* 0 before s, 1 after end = s + 60 m, the line from v to 1 in between.
RampValue(s, v, m, now) ==
    LET end == s + 60 * m
    IN  IF now < s THEN Rat(0, 1)
        ELSE IF now > end THEN Rat(1, 1)
        ELSE Rat(v.n * (end - s) + (v.d - v.n) * (now - s), v.d * (end - s))

Polled == pol.stage = "rollout" /\ pol.result \in {"offered", "hidden"}

PolledAt(version, now, w) ==
    /\ Polled /\ pol.node.version = version
    /\ RolloutTimes[pol.clock] = now /\ pol.w = w

\* C12: for a release with a duration m > 0 and a client of wariness
\* 0 < w < 1, the edge is never missing after it was offered, and it is
\* offered at every second from the rollout end s + 60 m on.
C12_MonotoneInTime ==
    LET p == RolloutParams(pol.node)
    IN  pol.stage = "rollout" /\ p.some /\ p.m > 0
        /\ GreaterF64(pol.w, Rat(0, 1)) /\ GreaterF64(Rat(1, 1), pol.w) =>
            /\ ~pol.lost
            /\ Polled /\ RolloutTimes[pol.clock] >= p.s + 60 * p.m =>
                  pol.result = "offered"

\* C13: the release is hidden exactly when wariness > throttling, where
\* throttling is 0 before s, 1 after end = s + 60 m, and
\* v + (1 - v) (now - s) / (end - s) from s to end, both included; with
\* s = 1000, v = 0, m = 10 the edge survives at 1300 for w = 0.4 and not
\* for w = 0.6, is hidden at 999 and offered at 1601.
C13_LinearRamp ==
    LET p == RolloutParams(pol.node)
    IN  /\ Polled /\ p.some /\ p.m > 0 =>
              (pol.result = "hidden" <=>
                  GreaterF64(pol.w, RampValue(p.s, p.v, p.m, RolloutTimes[pol.clock])))
        /\ PolledAt("example", 1300, Rat(4, 10)) => pol.result = "offered"
        /\ PolledAt("example", 1300, Rat(6, 10)) => pol.result = "hidden"
        /\ Polled /\ pol.node.version = "example" /\ RolloutTimes[pol.clock] = 999
              => pol.result = "hidden"
        /\ Polled /\ pol.node.version = "example" /\ RolloutTimes[pol.clock] = 1601
              => pol.result = "offered"

\* C19: for every start_epoch and every parseable duration_minutes, 0
\* included, the end of the rollout is computed without overflow or
\* wrap-around and is greater than start_epoch.
C19_EndAfterStart ==
    LET p == RolloutParams(pol.node)
        mins == IF p.m < 1 THEN 1 ELSE p.m
        sum == RolloutEnd(p.s, mins)
    IN  pol.stage = "rollout" /\ pol.result # "none" /\ p.some =>
            /\ I64_MIN <= sum /\ sum <= I64_MAX
            /\ sum > p.s
            /\ pol.result # "panicked"

\* The positions of the rollout entries for a version.
MatchingEntries(rollouts, version) ==
    {k \in 1..Len(rollouts) : rollouts[k].version = version}

\* C16: a built node has the rollout metadata of the last entry of
\* updates.rollouts for its version, strings unchanged, with the duration
\* key present exactly when that entry has a duration; a node without an
\* entry has none of the three keys.
C16_LastRolloutWins ==
    pol.stage = "built" /\ ~pol.built.panic =>
        \A i \in 1..Len(pol.built.graph.nodes) :
            LET node == pol.built.graph.nodes[i]
                md == node.metadata
                matching == MatchingEntries(pol.updates.rollouts, node.version)
                last == CHOOSE k \in matching : \A j \in matching : j <= k
                entry == pol.updates.rollouts[last]
            IN  IF matching = {}
                THEN DOMAIN md \cap {START_EPOCH, START_VALUE, DURATION} = {}
                ELSE /\ START_EPOCH \in DOMAIN md /\ md[START_EPOCH] = entry.start_epoch
                     /\ START_VALUE \in DOMAIN md /\ md[START_VALUE] = entry.start_value
                     /\ DURATION \in DOMAIN md <=> entry.duration_minutes.some
                     /\ entry.duration_minutes.some =>
                           DURATION \in DOMAIN md
                           /\ md[DURATION] = entry.duration_minutes.val

\* C15: every derived wariness is in [0.000001, 1], and two requests with
\* the same node_uuid (absent counts as empty) get the same wariness and,
\* on the same cached graph in the same second, the same graph.
C15_WarinessOfUuid ==
    pol.stage = "wariness" =>
        /\ \A i \in TwoRequests :
              pol.wariness[i].some =>
                  /\ ~pol.wariness[i].val.nan
                  /\ ~LessF64(pol.wariness[i].val, Rat(1, 1000000))
                  /\ ~LessF64(Rat(1, 1), pol.wariness[i].val)
        /\ \A i, j \in TwoRequests :
              UuidOf(pol.uuid[i]) = UuidOf(pol.uuid[j]) =>
                  /\ pol.wariness[i].some /\ pol.wariness[j].some =>
                        pol.wariness[i] = pol.wariness[j]
                  /\ pol.out[i].some /\ pol.out[j].some => pol.out[i] = pol.out[j]

\* An absent and an empty node_uuid, a digest that the lower limit lifts,
\* and an edge that is hidden for both requests.
C15_Witness ==
    /\ pol.stage = "wariness"
    /\ ~pol.uuid[1].some /\ pol.uuid[2] = Some(<<>>)
    /\ pol.sip[<<<<0, 0>>, <<>>>>] = 0
    /\ pol.wariness[1] = Some(Rat(1, 1000000))
    /\ pol.out[1].some /\ pol.out[2].some
    /\ pol.out[1].val.edges = <<>> /\ pol.g.edges # <<>>

\* C21: no GetCachedGraph is handled while a refresh cycle is in flight,
\* a read is answered with the graph the last ended cycle left (the new
\* one after a swap, the previous one after a failure), and every read
\* sent is eventually answered.
C21_ReadsWaitForCycle ==
    /\ [][\A r \in Requests :
            Answered(r) =>
                /\ inflight = 0 /\ ~waiting
                /\ reqs'[r].reply = Ok(published)]_vars
    /\ [][Len(mailbox') < Len(mailbox) => inflight = 0 /\ ~waiting]_vars
    /\ \A r \in Requests : (reqs[r].pc = "sent") ~> (reqs[r].pc # "sent")

\* C22: throttling then filtering and filtering then throttling, in the
\* same second, return the same graph: same nodes, same edges, same order;
\* and one order returns a graph only if the other does.
C22_StagesCommute ==
    pol.stage = "pairs" =>
        /\ Len(pol.tf) = 2 /\ Len(pol.ft) = 2 => pol.tf[2] = pol.ft[2]
        /\ ~("tf" \in pol.panicked /\ Len(pol.ft) = 2)
        /\ ~("ft" \in pol.panicked /\ Len(pol.tf) = 2)

C22_Witness ==
    /\ pol.stage = "pairs"
    /\ Len(pol.tf) = 2 /\ Len(pol.ft) = 2
    /\ Len(pol.tf[1].edges) < Len(pol.g.edges)
    /\ Len(pol.ft[1].edges) < Len(pol.g.edges)
    /\ pol.tf[1] # pol.ft[1]
    /\ Len(pol.tf[2].edges) < Len(pol.tf[1].edges)
    /\ Len(pol.ft[2].edges) < Len(pol.ft[1].edges)
    /\ Len(pol.tf[2].edges) > 0

\* C23: policy::filter_deadends and Graph::filter_deadends return the
\* same nodes and the same edge sequence on every graph, edges that point
\* outside the node list included.
C23_FiltersEquivalent ==
    pol.stage = "pairs" /\ Len(pol.pf) = 1 /\ Len(pol.ft) >= 1 =>
        /\ pol.pf[1].nodes = pol.ft[1].nodes
        /\ pol.pf[1].edges = pol.ft[1].edges

C23_Witness ==
    /\ pol.stage = "pairs" /\ Len(pol.pf) = 1 /\ Len(pol.ft) >= 1
    /\ Len(pol.pf[1].edges) < Len(pol.g.edges)
    /\ Len(pol.pf[1].edges) > 1
    /\ \E k \in 1..Len(pol.pf[1].edges) : pol.pf[1].edges[k][1] >= Len(pol.g.nodes)
    /\ \E k \in 1..Len(pol.g.edges) : pol.g.edges[k][2] >= Len(pol.g.nodes)

====
